---- MODULE Spec2Model ----
(***************************************************************************)
(* Segmented HTTP download: the httpDownloader (ste/downloader-http.go),   *)
(* the chunk scheduling loop of the remote-to-local transfer, and the      *)
(* chunkedFileWriter's admission gate and in-order write worker.           *)
(*                                                                         *)
(* Sizes and offsets are counted in units of maxWriteSize (1 MiB).         *)
(* A byte of the resource is named by its offset in the resource, so a     *)
(* chunk body, the hashed stream and the file are sequences of offsets.    *)
(***************************************************************************)
EXTENDS Integers, Sequences, FiniteSets, TLC

\* ---------------------------------------------------------------- bounds
MaxFileSize   == 3      \* largest source size tried
MaxBlockSize  == 2      \* largest --block-size tried
MaxCacheLimit == 3      \* largest RAM budget of the cache limiter tried
MaxRetry      == 1      \* value returned by destWriter.MaxRetryPerDownloadBody()
MaxBackoffRetry == 32   \* retry budget tried for the back-off of the retry loop
MaxHashFileSize == 2    \* largest source size tried with hash validation or a credential
MaxFilters    == 2      \* longest list of filters handed to Traverse
MaxProbes     == 2      \* most calls of detectCapabilities on one downloader

\* ------------------------------------------------------ program constants
maxWriteSize       == 1      \* saveOneChunk writes in 1 MiB sub-slices
maxChannelCapacity == 1000   \* buffered channel size is min(numChunks, 1000)

StatusOK                 == 200
StatusPartialContent     == 206
StatusUnauthorized       == 401
StatusNotFound           == 404
StatusPreconditionFailed == 412
StatusTooManyRequests    == 429
StatusInternalServerError == 500
TransportError           == 0     \* httpClient.Do returned err != nil, resp == nil

Second == 1000                    \* time.Second, in milliseconds

HashValidationOptions == {"NoCheck", "FailIfDifferent", "FailIfDifferentOrMissing", "LogOnly"}
TerminalStatuses      == {"Completed", "Failed", "Cancelled"}

Min(a, b) == IF a < b THEN a ELSE b

VARIABLES
    \* the command line: the source argument, parsed into its scheme and the
    \* labels of its host, and the value of --location, a sequence of characters
    srcArg, userSpecifiedLocation,
    fromLocation,        \* result of ValidateArgumentLocation, once it has run
    \* inputs of the transfer (TransferInfo, flags, environment)
    fileSize,            \* info.SourceSize, the size found by enumeration
    downloadChunkSize,   \* --block-size
    cacheLimit,          \* RAM budget of the cache limiter
    urlValid,            \* whether http.NewRequestWithContext accepts hd.sourceURL
    md5Option,           \* jptm.MD5ValidationOption()
    srcMD5,              \* info.SrcHTTPHeaders.ContentMD5: "none", "good" or "bad"
    maxRetries,          \* destWriter.MaxRetryPerDownloadBody()
    credToken,           \* jptm.CredentialInfo().OAuthTokenInfo.Token, "" when there is none
    \* enumeration (cmd/zc_traverser_http.go)
    filters,             \* the filters handed to Traverse, each with the answers of its
                         \* DoesSupportThisOS and DoesPass
    processorErr,        \* the error the processor handed to Traverse returns
    traversal,           \* Traverse: "new", then "done" with the calls of the processor,
                         \* the enumeration counter and the error returned
    traverser,           \* newHTTPTraverser: "new", then "ready" or "failed", the answer to
                         \* its HEAD request (-1: none sent) and the error it returned
    \* IJobPartTransferMgr
    status,              \* transfer status
    reportedDone,        \* number of ReportTransferDone calls
    ctxCancelled,        \* jptm.Context() is cancelled
    \* transfer orchestration (xfer-remoteToLocal-file.go)
    xferPc,              \* "start", "prologue", "schedule", "wait", "flush", "done"
    startIndex,          \* loop variable of the chunk scheduling loop
    \* httpDownloader fields
    supportsRange, contentLength, etag,
    bearerToken,         \* hd.bearerToken
    expectedMD5,         \* hd.expectedMD5, <<>> while it is nil
    probeResponses,      \* the answers the HEAD requests of detectCapabilities got
    probeRequests,       \* the HEAD requests detectCapabilities has sent, with their answers
    probeLog,            \* the error Prologue logged with jptm.LogError
    probeErr,            \* detectCapabilities returned an error to Prologue
    \* chunk tasks, keyed by id.OffsetInFile()
    chunks,
    \* chunkedFileWriter
    reserved,                    \* bytes held in the cache limiter
    newUnorderedChunks,          \* the buffered channel
    channelClosed,               \* Flush closed the channel
    unsavedChunksByFileOffset,   \* the reorder map
    nextOffsetToSave,
    md5Hasher,                   \* bytes fed to the hash, in order
    file,                        \* bytes written to the destination, in order
    writeCalls,                  \* every w.file.Write call: offset of the slice, length, outcome
    failureError,                \* a write error was recorded
    workerDone,                  \* workerRoutine returned
    \* file system
    tempExists, destExists,
    \* history
    saw412                       \* some chunk request of the transfer was answered 412

cfgVars    == <<srcArg, userSpecifiedLocation, fileSize, downloadChunkSize, cacheLimit, urlValid,
               md5Option, srcMD5, maxRetries, credToken, filters, processorErr>>
cmdVars    == <<fromLocation, traverser, traversal>>
jptmVars   == <<status, reportedDone, ctxCancelled>>
xferVars   == <<xferPc, startIndex>>
hdVars     == <<supportsRange, contentLength, etag, expectedMD5, probeResponses, probeErr,
               bearerToken, probeRequests,
               probeLog>>
writerVars == <<reserved, newUnorderedChunks, channelClosed, unsavedChunksByFileOffset,
                nextOffsetToSave, md5Hasher, file, writeCalls, failureError, workerDone>>
fsVars     == <<tempExists, destExists>>
vars       == <<cfgVars, cmdVars, jptmVars, xferVars, hdVars, chunks, writerVars, fsVars,
               saw412>>

\* an error value: its text, and the status code printed in the text (-1 when
\* the text has none); NoError is nil
NoError == [msg |-> "", code |-> -1]

\* ------------------------------------------------------------- command line
\* a source argument: its scheme ("" when it has none) and its host labels
URL(scheme, host) == [scheme |-> scheme, host |-> host]

\* the generic HTTP source of the transfers
GenericSource == URL("https", <<"cdn", "example", "com">>)

\* source arguments tried: the cloud endpoints, generic HTTP hosts, a raw IP
\* address, a local path and another scheme
SourceArgs ==
    {URL("https", <<"test", "blob", "core", "windows", "net">>),
     URL("https", <<"test", "file", "core", "windows", "net">>),
     URL("https", <<"test", "dfs", "core", "windows", "net">>),
     URL("https", <<"s3", "amazonaws", "com">>),
     URL("https", <<"storage", "cloud", "google", "com">>),
     URL("https", <<"privateendpoint", "com">>),
     URL("http", <<"127", "0", "0", "1">>),
     GenericSource,
     URL("", <<>>),
     URL("ftp", <<"example", "com">>)}

\* values of --location tried, as sequences of characters
LocationArgs ==
    {<<>>,
     <<"F", "I", "L", "E">>, <<"f", "i", "l", "e">>,
     <<"B", "l", "o", "B">>, <<"b", "l", "o", "b", "f", "s">>,
     <<"S", "3">>, <<"g", "c", "p">>, <<"L", "o", "c", "a", "l">>,
     <<"h", "t", "t", "p">>, <<"H", "T", "T", "P">>, <<"H", "t", "t", "p">>,
     <<"r", "a", "n", "d", "o", "m">>, <<"b", "l", "o">>, <<"h", "t", "t", "p", "s">>}

\* the state after construction, for a transfer drawn from the given sets
InitState(sizes, limits, urls, options, hashes, tokens, budgets) ==
    /\ srcArg \in SourceArgs
    /\ userSpecifiedLocation \in LocationArgs
    /\ fromLocation = [pc |-> "new", location |-> "Unknown", err |-> NoError]
    /\ fileSize \in sizes
    /\ downloadChunkSize \in 1..MaxBlockSize
    /\ cacheLimit \in limits
    /\ urlValid \in urls
    /\ md5Option \in options
    /\ srcMD5 \in hashes
    /\ credToken \in tokens
    /\ maxRetries \in budgets
    /\ traverser = [pc |-> "new", answer |-> -1, err |-> NoError]
    /\ traversal = [pc |-> "new", processed |-> 0, enumerated |-> 0, err |-> NoError]
    /\ status = "Scheduled"
    /\ reportedDone = 0
    /\ ctxCancelled = FALSE
    /\ xferPc = "start"
    /\ startIndex = 0
    /\ supportsRange = FALSE
    /\ contentLength = 0
    /\ etag = ""
    /\ probeErr = FALSE
    /\ bearerToken = ""
    /\ probeRequests = <<>>
    /\ expectedMD5 = <<>>
    /\ probeResponses = <<>>
    /\ probeLog = NoError
    /\ chunks = <<>>
    /\ reserved = 0
    /\ newUnorderedChunks = <<>>
    /\ channelClosed = FALSE
    /\ unsavedChunksByFileOffset = <<>>
    /\ nextOffsetToSave = 0
    /\ md5Hasher = <<>>
    /\ file = <<>>
    /\ writeCalls = <<>>
    /\ failureError = FALSE
    /\ workerDone = FALSE
    /\ tempExists = FALSE
    /\ destExists = FALSE
    /\ saw412 = FALSE

\* Traverse gets no filter and a processor that succeeds
NoFilters ==
    /\ filters = <<>>
    /\ processorErr = NoError

\* the command line names a generic HTTP source and no --location
HttpSource ==
    /\ srcArg = GenericSource
    /\ userSpecifiedLocation = <<>>

\* transfers of every size, RAM budget and URL, with hash validation off,
\* no Content-MD5 at the source and no credential
Init ==
    /\ HttpSource
    /\ NoFilters
    /\ InitState(0..MaxFileSize, 1..MaxCacheLimit, BOOLEAN, {"NoCheck"}, {"none"}, {""},
                  {MaxRetry})

\* transfers under every hash validation option, with no, the right or a wrong
\* Content-MD5 at the source, and a RAM budget that holds the whole file
HashInit ==
    /\ HttpSource
    /\ NoFilters
    /\ InitState(0..MaxHashFileSize, {MaxCacheLimit}, {TRUE}, HashValidationOptions,
              {"none", "good", "bad"}, {""}, {MaxRetry})

\* transfers with and without a bearer token in the credential, hash
\* validation off, and a RAM budget that holds the whole file
AuthInit ==
    /\ HttpSource
    /\ NoFilters
    /\ InitState(0..MaxHashFileSize, {MaxCacheLimit}, {TRUE}, {"NoCheck"}, {"none"},
              {"", "secret-bearer-token"}, {MaxRetry})

\* transfers of a single chunk with every retry budget up to MaxBackoffRetry
BackoffInit ==
    /\ HttpSource
    /\ NoFilters
    /\ InitState({1}, {MaxCacheLimit}, {TRUE}, {"NoCheck"}, {"none"}, {""}, 0..MaxBackoffRetry)
    /\ downloadChunkSize = 1

\* every source argument with every value of --location, for a transfer of a
\* single chunk
LocationInit ==
    /\ NoFilters
    /\ InitState({1}, {MaxCacheLimit}, {TRUE}, {"NoCheck"}, {"none"}, {""}, {MaxRetry})
    /\ downloadChunkSize = 1

\* a filter by the answers of its DoesSupportThisOS and DoesPass, and the
\* filter lists of up to MaxFilters filters
Filter == [supportsOS : BOOLEAN, doesPass : BOOLEAN]
FilterLists == UNION {[1..n -> Filter] : n \in 0..MaxFilters}

\* the errors the processor of a traversal returns: none, or "processor error"
ProcessorErrors == {NoError, [msg |-> "processor error", code |-> -1]}

\* every filter list with a processor that succeeds or fails, for a transfer
\* of a single chunk
TraverseInit ==
    /\ HttpSource
    /\ filters \in FilterLists
    /\ processorErr \in ProcessorErrors
    /\ InitState({1}, {MaxCacheLimit}, {TRUE}, {"NoCheck"}, {"none"}, {""}, {MaxRetry})
    /\ downloadChunkSize = 1

\* ------------------------------------------------------------- IJobPartTransferMgr
\* jptm.ReportTransferDone(): counted, the counter saturates at 3
ReportTransferDone(n) == Min(n + 1, 3)

\* the headers of a request that has not been built; a header that is not set
\* is the empty sequence
NoRequest == [range |-> <<>>, auth |-> <<>>, ifMatch |-> <<>>]

\* a chunk task entry, created when the scheduling loop schedules the chunk
NewChunk(size) ==
    [len |-> size, pc |-> "queued", retries |-> 0, requests |-> 0, lastResp |-> -1,
     rangeSent |-> FALSE, dataStart |-> 0, failMsg |-> "", failCalls |-> 0,
     enqueued |-> FALSE, req |-> NoRequest, backoff |-> 0]

\* jptm.FailActiveDownload(msg, err) called by the task of chunk c: the transfer is
\* marked failed and the chunk is accounted for as failed
FailedChunk(ch, msg) ==
    [ch EXCEPT !.pc = "failed", !.failMsg = msg, !.failCalls = @ + 1,
               !.lastResp = -1, !.dataStart = 0, !.req = NoRequest, !.backoff = 0]

\* the chunk function returned after EnqueueChunk: its locals are gone
ReturnedChunk(ch) ==
    [ch EXCEPT !.retries = 0, !.requests = 0, !.lastResp = -1, !.dataStart = 0,
               !.req = NoRequest, !.backoff = 0]

\* ------------------------------------------------------------- cache limiter
\* a limiter that never lets the budget be used up
CanAdd_Strict(count) == reserved + count < cacheLimit

\* cacheLimiter.WaitUntilAdd can add count without exceeding the budget
CanAdd(count) == reserved + count <= cacheLimit

\* a WaitToScheduleChunk that reserves without waiting for room
WaitToScheduleChunk_NoWait(chunkSize) == reserved' = reserved + chunkSize

\* a WaitToScheduleChunk that a cancelled context does not wake up
WaitToScheduleChunk_IgnoreCtx(chunkSize) ==
    /\ CanAdd(chunkSize)
    /\ reserved' = reserved + chunkSize

\* chunkedFileWriter.WaitToScheduleChunk(ctx, id, chunkSize): blocks until the
\* limiter can add chunkSize, and reserves it; returns without a reservation when
\* the limiter has no room and the context is cancelled
WaitToScheduleChunk(chunkSize) ==
    \/ /\ CanAdd(chunkSize)
       /\ reserved' = reserved + chunkSize
    \/ /\ ~CanAdd(chunkSize)
       /\ ctxCancelled
       /\ reserved' = reserved

\* ------------------------------------------------------------- orchestration
\* the expected hash of the source as found by enumeration; a hash is modelled
\* by the byte sequence it was computed from
MD5(data)      == <<"md5", data>>
SourceContent  == [i \in 1..fileSize |-> i - 1]
ExpectedMD5    == CASE srcMD5 = "none" -> <<>>
                    [] srcMD5 = "good" -> MD5(SourceContent)
                    [] OTHER           -> MD5(<<-1>>)

\* md5Comparer.Check
Check(option, expected, actual) ==
    IF option = "NoCheck" THEN "nil"
    ELSE IF Len(expected) = 0
         THEN IF option = "FailIfDifferentOrMissing" THEN "errExpectedMd5Missing" ELSE "nil"
         ELSE IF expected # actual /\ option \in {"FailIfDifferentOrMissing", "FailIfDifferent"}
              THEN "errMd5Mismatch"
              ELSE "nil"

\* an early check that never fails the transfer
ExpectedMd5Missing_Never == FALSE

\* early validation: a hash is required and the source has none
ExpectedMd5Missing ==
    md5Option = "FailIfDifferentOrMissing" /\ Len(ExpectedMD5) = 0

\* ------------------------------------------------------------- location
\* strings.ToLower, on the characters of the values tried
ToLowerChar(ch) ==
    CASE ch = "B" -> "b" [] ch = "E" -> "e" [] ch = "F" -> "f" [] ch = "H" -> "h"
      [] ch = "I" -> "i" [] ch = "L" -> "l" [] ch = "P" -> "p" [] ch = "S" -> "s"
      [] ch = "T" -> "t" [] OTHER -> ch
ToLower(str) == [i \in 1..Len(str) |-> ToLowerChar(str[i])]

\* the Location values and the spelling of their names
LocationNames ==
    [Unknown |-> <<"U", "n", "k", "n", "o", "w", "n">>,
     Local   |-> <<"L", "o", "c", "a", "l">>,
     Blob    |-> <<"B", "l", "o", "b">>,
     File    |-> <<"F", "i", "l", "e">>,
     BlobFS  |-> <<"B", "l", "o", "b", "F", "S">>,
     S3      |-> <<"S", "3">>,
     GCP     |-> <<"G", "C", "P">>,
     Http    |-> <<"H", "t", "t", "p">>]

\* a parse of the override that tells the case of the letters apart
LocationParse_CaseSensitive(name) ==
    {l \in DOMAIN LocationNames : LocationNames[l] = name}

\* Location.Parse: the Locations whose name is the given one, whatever the case
\* of its letters (none, or one)
LocationParse(name) ==
    {l \in DOMAIN LocationNames : ToLower(LocationNames[l]) = ToLower(name)}

\* an inference that recognises no Azure storage endpoint
IsCloudHost_Never(host, service) ==
    FALSE

\* the host ends with the labels of an Azure storage endpoint of the service
IsCloudHost(host, service) ==
    /\ Len(host) >= 5
    /\ host[Len(host) - 3] = service
    /\ SubSeq(host, Len(host) - 2, Len(host)) = <<"core", "windows", "net">>

\* an inference that knows the cloud endpoints only
InferArgumentLocation_NoHttp(src) ==
    IF src.scheme \in {"http", "https"}
    THEN CASE IsCloudHost(src.host, "blob") -> "Blob"
           [] IsCloudHost(src.host, "file") -> "File"
           [] IsCloudHost(src.host, "dfs")  -> "BlobFS"
           [] OTHER -> "Unknown"
    ELSE "Local"

\* InferArgumentLocation: the Location of a source argument by its own form
InferArgumentLocation(src) ==
    IF src.scheme \in {"http", "https"}
    THEN CASE IsCloudHost(src.host, "blob") -> "Blob"
           [] IsCloudHost(src.host, "file") -> "File"
           [] IsCloudHost(src.host, "dfs")  -> "BlobFS"
           [] src.host = <<"s3", "amazonaws", "com">> -> "S3"
           [] src.host = <<"storage", "cloud", "google", "com">> -> "GCP"
           [] OTHER -> "Http"
    ELSE IF src.scheme = "" THEN "Local" ELSE "Unknown"

\* ValidateArgumentLocation(src, userSpecifiedLocation): a --location that is
\* given decides alone, and must name a Location; otherwise the argument does
ValidateArgumentLocation(src, override) ==
    IF override # <<>>
    THEN IF LocationParse(override) = {}
         THEN [location |-> "Unknown",
               err |-> [msg |-> "invalid --location value specified", code |-> -1]]
         ELSE [location |-> CHOOSE l \in LocationParse(override) : TRUE, err |-> NoError]
    ELSE IF InferArgumentLocation(src) = "Unknown"
         THEN [location |-> "Unknown",
               err |-> [msg |-> "the inferred location could not be identified", code |-> -1]]
         ELSE [location |-> InferArgumentLocation(src), err |-> NoError]

\* the command line is validated: the Location of the source is decided
ValidateLocation ==
    /\ fromLocation.pc = "new"
    /\ LET r == ValidateArgumentLocation(srcArg, userSpecifiedLocation)
       IN  fromLocation' = [pc |-> "done", location |-> r.location, err |-> r.err]
    /\ UNCHANGED <<cfgVars, traverser, traversal, jptmVars, xferVars, hdVars, chunks, writerVars, fsVars,
                   saw412>>

\* ------------------------------------------------------------- enumeration
\* the answers a HEAD probe can get that make it fail: a transport error or a
\* status other than 200
ProbeErrorStatuses ==
    {TransportError, StatusUnauthorized, StatusNotFound, StatusInternalServerError}

\* httpTraverser.detectCapabilities: the error it returns for the answer to
\* its HEAD request
TraverserDetectCapabilities(answer) ==
    IF answer = TransportError THEN [msg |-> "HEAD request failed: %w", code |-> -1]
    ELSE IF answer # StatusOK
         THEN [msg |-> "HEAD request returned status %d: %s", code |-> answer]
         ELSE NoError

\* newHTTPTraverser: the URL is parsed and probed; the traverser exists only
\* when both succeed, and its error wraps the error of the probe
NewHTTPTraverser ==
    /\ fromLocation.pc = "done"
    /\ fromLocation.err = NoError
    /\ fromLocation.location = "Http"
    /\ traverser.pc = "new"
    /\ \E parsed \in BOOLEAN, answer \in ProbeErrorStatuses \cup {StatusOK} :
         LET err == TraverserDetectCapabilities(answer) IN
         traverser' =
             IF ~parsed
             THEN [pc |-> "failed", answer |-> -1,
                   err |-> [msg |-> "invalid HTTP URL: %w", code |-> -1]]
             ELSE IF err # NoError
                  THEN [pc |-> "failed", answer |-> answer,
                        err |-> [msg  |-> "failed to detect HTTP capabilities: %w",
                                 code |-> err.code]]
                  ELSE [pc |-> "ready", answer |-> answer, err |-> NoError]
    /\ UNCHANGED <<cfgVars, fromLocation, traversal, jptmVars, xferVars, hdVars, chunks,
                   writerVars, fsVars, saw412>>

\* a filter list that treats a filter that does not support this OS as one
\* that applies
FilterRejects_IgnoreOS(fs) ==
    \E i \in 1..Len(fs) : ~fs[i].doesPass

\* the filter loop of Traverse: TRUE when it returns early, at the first filter
\* that supports this OS and does not pass the object
RECURSIVE FilterRejects(_)
FilterRejects(fs) ==
    IF fs = <<>> THEN FALSE
    ELSE IF ~Head(fs).supportsOS THEN FilterRejects(Tail(fs))
    ELSE IF ~Head(fs).doesPass THEN TRUE
    ELSE FilterRejects(Tail(fs))

\* httpTraverser.Traverse: the single file object goes through the filters;
\* a rejected object ends the traversal with nil, otherwise the processor is
\* called once, its error is wrapped and returned, and only without an error
\* the enumeration counter is incremented
Traverse ==
    /\ traverser.pc = "ready"
    /\ traversal.pc = "new"
    /\ traversal' =
         IF FilterRejects(filters)
         THEN [traversal EXCEPT !.pc = "done"]
         ELSE IF processorErr # NoError
              THEN [traversal EXCEPT !.pc = "done", !.processed = @ + 1,
                        !.err = [msg  |-> "failed to process HTTP file: %w",
                                 code |-> processorErr.code]]
              ELSE [traversal EXCEPT !.pc = "done", !.processed = @ + 1,
                                     !.enumerated = @ + 1]
    /\ UNCHANGED <<cfgVars, fromLocation, traverser, jptmVars, xferVars, hdVars, chunks,
                   writerVars, fsVars, saw412>>

\* ------------------------------------------------------------- transfer
\* start of the transfer: early hash check, zero-byte file, creation of the
\* pre-allocated temp file and of the writer
Start ==
    /\ xferPc = "start"
    /\ traversal.pc = "done"
    /\ traversal.processed = 1
    /\ traversal.err = NoError
    /\ IF ExpectedMd5Missing
       THEN /\ status' = "Failed"
            /\ reportedDone' = ReportTransferDone(reportedDone)
            /\ xferPc' = "done"
            /\ UNCHANGED <<tempExists, destExists>>
       ELSE IF fileSize = 0
       THEN /\ status' = "Completed"
            /\ reportedDone' = ReportTransferDone(reportedDone)
            /\ xferPc' = "done"
            /\ destExists' = TRUE
            /\ UNCHANGED tempExists
       ELSE /\ status' = "InProgress"
            /\ tempExists' = TRUE
            /\ xferPc' = "prologue"
            /\ UNCHANGED <<reportedDone, destExists>>
    /\ UNCHANGED <<cfgVars, cmdVars, ctxCancelled, startIndex, hdVars, chunks, writerVars,
                   saw412>>

\* httpDownloader.detectCapabilities: the error it returns when the request
\* could not be created, or else for the answer to its HEAD request
DownloaderDetectCapabilities(answer) ==
    IF ~urlValid THEN [msg |-> "failed to create HEAD request: %w", code |-> -1]
    ELSE IF answer = TransportError THEN [msg |-> "HEAD request failed: %w", code |-> -1]
    ELSE IF answer # StatusOK
         THEN [msg |-> "HEAD request returned status %d: %s", code |-> answer]
         ELSE NoError

\* base64.StdEncoding: the header value of a hash, and the decoding of a header
\* value, which fails on a value that is no encoding
Base64Encode(hash) == <<"base64", hash>>
Base64Decode(value) ==
    IF Len(value) = 2 /\ value[1] = "base64"
    THEN [ok |-> TRUE, decoded |-> value[2]]
    ELSE [ok |-> FALSE, decoded |-> <<>>]

\* the Content-MD5 header of the source: absent, or the encoding of the hash
\* enumeration found
ContentMD5Header ==
    IF ExpectedMD5 = <<>> THEN <<>> ELSE Base64Encode(ExpectedMD5)

\* the answers a HEAD probe can get; err covers a transport error, a status
\* other than 200 and a request that could not be created
HeadResponses ==
    (IF urlValid
     THEN [err : {TRUE}, status : ProbeErrorStatuses, acceptRanges : {FALSE},
           contentLength : {0}, etag : {""}, contentMD5 : {<<>>}]
          \cup [err : {FALSE}, status : {StatusOK}, acceptRanges : BOOLEAN,
                contentLength : {fileSize}, etag : {"", "v1"},
                contentMD5 : {ContentMD5Header}]
          \cup [err : {FALSE}, status : {StatusOK}, acceptRanges : {TRUE},
                contentLength : {0, fileSize + 1}, etag : {""},
                contentMD5 : {ContentMD5Header}]
     ELSE {[err |-> TRUE, status |-> TransportError, acceptRanges |-> FALSE,
            contentLength |-> 0, etag |-> "", contentMD5 |-> <<>>]})

\* httpDownloader.detectCapabilities: the content length stored after the probe
DetectedContentLength(head) ==
    IF head.contentLength > 0 THEN head.contentLength ELSE contentLength

\* httpDownloader.detectCapabilities: the hash stored after the probe, replaced
\* only by a Content-MD5 header that is present and decodes
DetectedMD5(head) ==
    IF head.contentMD5 # <<>> /\ Base64Decode(head.contentMD5).ok
    THEN Base64Decode(head.contentMD5).decoded
    ELSE expectedMD5

\* "Bearer "+hd.bearerToken, set when the downloader has a token
AuthorizationHeader ==
    IF bearerToken # "" THEN <<"Bearer ", bearerToken>> ELSE <<>>

\* the HEAD request that detectCapabilities builds
HeadRequest == [auth |-> AuthorizationHeader]

\* httpDownloader.Prologue
Prologue ==
    /\ xferPc = "prologue"
    /\ \E head \in HeadResponses :
         IF head.err
         THEN /\ status' = "Failed"
              /\ reportedDone' = ReportTransferDone(reportedDone)
              /\ probeErr' = TRUE
              /\ probeLog' = DownloaderDetectCapabilities(head.status)
              /\ probeRequests' =
                     IF urlValid
                     THEN Append(probeRequests, [req |-> HeadRequest, answer |-> head.status])
                     ELSE probeRequests
              /\ probeResponses' =
                     IF urlValid THEN Append(probeResponses, head) ELSE probeResponses
              /\ UNCHANGED <<supportsRange, contentLength, etag, expectedMD5>>
         ELSE /\ supportsRange' = head.acceptRanges
              /\ UNCHANGED <<probeErr, probeLog>>
              /\ probeRequests' = Append(probeRequests, [req |-> HeadRequest, answer |-> head.status])
              /\ probeResponses' = Append(probeResponses, head)
              /\ contentLength' = DetectedContentLength(head)
              /\ expectedMD5' = DetectedMD5(head)
              /\ etag' = head.etag
              /\ IF contentLength' > 0 /\ fileSize # contentLength'
                 THEN /\ status' = "Failed"
                      /\ reportedDone' = ReportTransferDone(reportedDone)
                 ELSE UNCHANGED <<status, reportedDone>>
    /\ xferPc' = "schedule"
    /\ UNCHANGED <<cfgVars, cmdVars, ctxCancelled, startIndex, bearerToken, chunks, writerVars,
                   fsVars, saw412>>

\* number of chunks of the transfer
NumChunks ==
    IF fileSize % downloadChunkSize = 0
    THEN fileSize \div downloadChunkSize
    ELSE fileSize \div downloadChunkSize + 1

\* a chunk size that is not adjusted for the last chunk
AdjustedChunkSize_NoAdjust(si) == downloadChunkSize

\* exact size of the chunk starting at si (the last chunk may be smaller)
AdjustedChunkSize(si) ==
    IF si + downloadChunkSize > fileSize THEN fileSize - si ELSE downloadChunkSize

\* one iteration of the chunk scheduling loop
ScheduleChunk ==
    /\ xferPc = "schedule"
    /\ startIndex < fileSize
    /\ LET size == AdjustedChunkSize(startIndex) IN
         /\ WaitToScheduleChunk(size)
         /\ chunks' = (startIndex :> NewChunk(size)) @@ chunks
    /\ startIndex' = startIndex + downloadChunkSize
    /\ xferPc' = IF startIndex' < fileSize THEN "schedule" ELSE "wait"
    /\ UNCHANGED <<cfgVars, cmdVars, jptmVars, hdVars, newUnorderedChunks, channelClosed,
                   unsavedChunksByFileOffset, nextOffsetToSave, md5Hasher, file, writeCalls,
                   failureError, workerDone, fsVars, saw412>>

\* ------------------------------------------------------------- chunk tasks
\* the answers httpClient.Do can get for a chunk request: a cancelled context
\* always gives an error, and 412 answers an If-Match header only; a 5xx answer
\* takes the path of 429 through the code and is not listed
Responses ==
    IF ctxCancelled THEN {TransportError}
    ELSE {TransportError, StatusOK, StatusPartialContent, StatusNotFound,
          StatusTooManyRequests}
         \cup (IF etag # "" THEN {StatusPreconditionFailed} ELSE {})

\* the response ends the retry loop
IsSuccess(resp) == resp = StatusOK \/ resp = StatusPartialContent

\* a retry loop that runs once too often
LoopContinues_OffByOne(retries, budget) == retries <= budget + 1

\* condition of the retry loop, and of the back-off and re-creation of the request
LoopContinues(retries, budget) == retries <= budget

\* a back-off without the cap
Backoff_Uncapped(retries) == retries * Second

\* the time the retry loop sleeps before the next attempt
Backoff(retries) ==
    LET backoff == retries * Second
    IN  IF backoff > 30 * Second THEN 30 * Second ELSE backoff

\* a range check that lets every chunk through
RangeCheckFails_Never(c) == FALSE

\* the server does not support range requests and the chunk is not the first
RangeCheckFails(c) == ~supportsRange /\ c > 0

\* fmt.Sprintf("bytes=%d-%d", offset, offset+length-1): the ranges of a Range
\* header, each a pair of its first and last position
RangeHeader(offset, length) == << <<offset, offset + length - 1>> >>

\* the request the chunk function builds for its first attempt
FirstRequest(c) ==
    [range   |-> IF supportsRange THEN RangeHeader(c, chunks[c].len) ELSE <<>>,
     auth    |-> AuthorizationHeader,
     ifMatch |-> IF etag # "" THEN <<etag>> ELSE <<>>]

\* a rebuilt request that leaves out If-Match
RetryRequest_NoIfMatch(c) == [FirstRequest(c) EXCEPT !.ifMatch = <<>>]

\* a rebuilt request that leaves out Range
RetryRequest_NoRange(c) == [FirstRequest(c) EXCEPT !.range = <<>>]

\* the request the retry loop builds anew before each further attempt
RetryRequest(c) ==
    [range   |-> IF supportsRange THEN RangeHeader(c, chunks[c].len) ELSE <<>>,
     auth    |-> AuthorizationHeader,
     ifMatch |-> IF etag # "" THEN <<etag>> ELSE <<>>]

\* GenerateDownloadFunc, from the start of the chunk function to its first
\* httpClient.Do call
ChunkStart(c) ==
    /\ c \in DOMAIN chunks
    /\ chunks[c].pc = "queued"
    /\ IF ~urlValid
       THEN /\ chunks' = [chunks EXCEPT ![c] = FailedChunk(@, "Creating HTTP request")]
            /\ status' = "Failed"
       ELSE IF RangeCheckFails(c)
       THEN /\ chunks' = [chunks EXCEPT ![c] = FailedChunk(@, "Range request validation")]
            /\ status' = "Failed"
       ELSE /\ chunks' = [chunks EXCEPT ![c] = [@ EXCEPT !.pc = "doing", !.requests = 1,
                                                          !.rangeSent = supportsRange,
                                                          !.req = FirstRequest(c)]]
            /\ UNCHANGED status
    /\ UNCHANGED <<cfgVars, cmdVars, reportedDone, ctxCancelled, xferVars, hdVars, writerVars, fsVars, saw412>>

\* GenerateDownloadFunc, from the return of httpClient.Do to the next Do call, to
\* the end of the retry loop or to the failure of the download
ChunkResponse(c) ==
    /\ c \in DOMAIN chunks
    /\ chunks[c].pc = "doing"
    /\ \E resp \in Responses :
         /\ saw412' = (saw412 \/ resp = StatusPreconditionFailed)
         /\ IF IsSuccess(resp)
            THEN /\ chunks' = [chunks EXCEPT ![c] =
                        [@ EXCEPT !.pc = "body", !.lastResp = resp,
                                  !.dataStart = IF chunks[c].rangeSent /\ resp = StatusPartialContent
                                                THEN c ELSE 0]]
                 /\ UNCHANGED status
            ELSE LET retries == chunks[c].retries + 1 IN
                 IF LoopContinues(retries, maxRetries)
                 THEN IF ~urlValid
                      THEN /\ chunks' = [chunks EXCEPT ![c] =
                                  FailedChunk([@ EXCEPT !.retries = retries],
                                              "Creating HTTP request for retry")]
                           /\ status' = "Failed"
                      ELSE /\ chunks' = [chunks EXCEPT ![c] =
                                  [@ EXCEPT !.retries = retries, !.lastResp = resp,
                                            !.requests = @ + 1, !.req = RetryRequest(c),
                                            !.backoff = Backoff(retries)]]
                           /\ UNCHANGED status
                 ELSE /\ chunks' = [chunks EXCEPT ![c] =
                             FailedChunk([@ EXCEPT !.retries = retries],
                                         "Downloading response body")]
                      /\ status' = "Failed"
    /\ UNCHANGED <<cfgVars, cmdVars, reportedDone, ctxCancelled, xferVars, hdVars, writerVars, fsVars>>

\* capacity of the buffered channel of the writer
ChannelCapacity == Min(NumChunks, maxChannelCapacity)

\* the fileChunk that EnqueueChunk builds from the response body
FileChunk(c) == [off |-> c, len |-> chunks[c].len, dataStart |-> chunks[c].dataStart]

\* destWriter.EnqueueChunk succeeded and the chunk function returns
ChunkEnqueue(c) ==
    /\ c \in DOMAIN chunks
    /\ chunks[c].pc = "body"
    /\ ~ctxCancelled
    /\ Len(newUnorderedChunks) < ChannelCapacity
    /\ newUnorderedChunks' = Append(newUnorderedChunks, FileChunk(c))
    /\ chunks' = [chunks EXCEPT ![c] = ReturnedChunk([@ EXCEPT !.pc = "done", !.enqueued = TRUE])]
    /\ UNCHANGED <<cfgVars, cmdVars, jptmVars, xferVars, hdVars, reserved, channelClosed,
                   unsavedChunksByFileOffset, nextOffsetToSave, md5Hasher, file, writeCalls,
                   failureError, workerDone, fsVars, saw412>>

\* destWriter.EnqueueChunk returned an error (the body could not be read, or the
\* context is cancelled): the reservation is released and the download fails
ChunkEnqueueError(c) ==
    /\ c \in DOMAIN chunks
    /\ chunks[c].pc = "body"
    /\ reserved' = reserved - chunks[c].len
    /\ chunks' = [chunks EXCEPT ![c] = ReturnedChunk(FailedChunk(@, "Enqueuing chunk"))]
    /\ status' = "Failed"
    /\ UNCHANGED <<cfgVars, cmdVars, reportedDone, ctxCancelled, xferVars, hdVars, newUnorderedChunks,
                   channelClosed, unsavedChunksByFileOffset, nextOffsetToSave, md5Hasher, file,
                   writeCalls, failureError, workerDone, fsVars, saw412>>

\* ------------------------------------------------------------- write worker
\* state of the writer that saveOneChunk reads and changes
WriterState ==
    [md5Hasher |-> md5Hasher, file |-> file, writeCalls |-> writeCalls,
     reserved |-> reserved, failureError |-> failureError]

\* a writer that hashes nothing
HashSlice_Skip(w, slice) == w

\* md5Hasher.Write(slice): the sub-slice is added to the streaming hash
HashSlice(w, slice) == [w EXCEPT !.md5Hasher = @ \o slice]

\* chunkedFileWriter.saveOneChunk, from sub-slice i on: each sub-slice is hashed,
\* then written; a write error returns at once; after the last sub-slice the
\* memory of the chunk is given back to the cache limiter. The write call whose
\* number (counted over the whole file) is failAt returns an error
RECURSIVE saveOneChunk(_, _, _, _)
saveOneChunk(w, chunk, i, failAt) ==
    IF i >= chunk.len
    THEN [w EXCEPT !.reserved = @ - chunk.len]
    ELSE LET n      == Min(i + maxWriteSize, chunk.len) - i
             slice  == [k \in 1..n |-> chunk.dataStart + i + k - 1]
             hashed == HashSlice(w, slice)
             ok     == Len(w.writeCalls) + 1 # failAt
             call   == [off |-> chunk.off + i, len |-> n, ok |-> ok]
         IN  IF ok
             THEN saveOneChunk([hashed EXCEPT !.file = @ \o slice,
                                              !.writeCalls = Append(@, call)],
                               chunk, i + maxWriteSize, failAt)
             ELSE [hashed EXCEPT !.writeCalls = Append(@, call), !.failureError = TRUE]

\* an inner loop that stops after the first chunk it saved
SaveSequentialChunks_Once(w, unsaved, next, failAt) ==
    IF next \in DOMAIN unsaved
    THEN [w       |-> saveOneChunk(w, unsaved[next], 0, failAt),
          unsaved |-> [o \in DOMAIN unsaved \ {next} |-> unsaved[o]],
          next    |-> next + unsaved[next].len]
    ELSE [w |-> w, unsaved |-> unsaved, next |-> next]

\* inner loop of workerRoutine: saves every chunk that is next in sequence
RECURSIVE SaveSequentialChunks(_, _, _, _)
SaveSequentialChunks(w, unsaved, next, failAt) ==
    IF next \in DOMAIN unsaved
    THEN SaveSequentialChunks(saveOneChunk(w, unsaved[next], 0, failAt),
                              [o \in DOMAIN unsaved \ {next} |-> unsaved[o]],
                              next + unsaved[next].len, failAt)
    ELSE [w |-> w, unsaved |-> unsaved, next |-> next]

\* one iteration of workerRoutine: receive a chunk, index it by its offset, save
\* all the chunks that are now in sequence
WorkerReceive ==
    /\ ~workerDone
    /\ Len(newUnorderedChunks) > 0
    /\ LET newChunk == Head(newUnorderedChunks)
           unsaved  == (newChunk.off :> newChunk) @@ unsavedChunksByFileOffset
           noError  == SaveSequentialChunks(WriterState, unsaved, nextOffsetToSave, 0)
       IN  \E failAt \in {0} \cup ((Len(writeCalls) + 1)..Len(noError.w.writeCalls)) :
             LET r == SaveSequentialChunks(WriterState, unsaved, nextOffsetToSave, failAt)
             IN  /\ newUnorderedChunks' = Tail(newUnorderedChunks)
                 /\ unsavedChunksByFileOffset' = r.unsaved
                 /\ nextOffsetToSave' = r.next
                 /\ md5Hasher' = r.w.md5Hasher
                 /\ file' = r.w.file
                 /\ writeCalls' = r.w.writeCalls
                 /\ reserved' = r.w.reserved
                 /\ failureError' = r.w.failureError
    /\ UNCHANGED <<cfgVars, cmdVars, jptmVars, xferVars, hdVars, chunks, channelClosed, workerDone,
                   fsVars, saw412>>

\* workerRoutine leaves its loop: the channel is closed and drained and the
\* reorder map is empty
WorkerExit ==
    /\ ~workerDone
    /\ channelClosed
    /\ Len(newUnorderedChunks) = 0
    /\ DOMAIN unsavedChunksByFileOffset = {}
    /\ workerDone' = TRUE
    /\ UNCHANGED <<cfgVars, cmdVars, jptmVars, xferVars, hdVars, chunks, reserved, newUnorderedChunks,
                   channelClosed, unsavedChunksByFileOffset, nextOffsetToSave, md5Hasher, file,
                   writeCalls, failureError, fsVars, saw412>>

\* ------------------------------------------------------------- epilogue
AllChunksReported == \A c \in DOMAIN chunks : chunks[c].pc \in {"done", "failed"}
AnyChunkFailed    == \E c \in DOMAIN chunks : chunks[c].pc = "failed"

\* jptm.IsLive()
IsLive == status \notin {"Failed", "Cancelled"}

\* epilogue, first part: every scheduled chunk has reported; Flush closes the
\* channel and waits for the write worker
EpilogueFlush ==
    /\ xferPc = "wait"
    /\ AllChunksReported
    /\ channelClosed' = TRUE
    /\ xferPc' = "flush"
    /\ UNCHANGED <<cfgVars, cmdVars, jptmVars, startIndex, hdVars, chunks, reserved, newUnorderedChunks,
                   unsavedChunksByFileOffset, nextOffsetToSave, md5Hasher, file, writeCalls,
                   failureError, workerDone, fsVars, saw412>>

\* the hash check of the epilogue
ValidationError ==
    IF IsLive THEN Check(md5Option, ExpectedMD5, MD5(md5Hasher)) ELSE "nil"

\* epilogue, second part: Flush returned; the file is closed; a failed transfer
\* deletes its temp file, otherwise the hash is checked and the temp file renamed
EpilogueFinish ==
    /\ xferPc = "flush"
    /\ workerDone
    /\ IF AnyChunkFailed \/ failureError \/ ValidationError # "nil"
       THEN /\ tempExists' = FALSE
            /\ status' = "Failed"
            /\ UNCHANGED destExists
       ELSE /\ tempExists' = FALSE
            /\ destExists' = TRUE
            /\ status' = "Completed"
    /\ reportedDone' = ReportTransferDone(reportedDone)
    /\ xferPc' = "done"
    /\ UNCHANGED <<cfgVars, cmdVars, ctxCancelled, startIndex, hdVars, chunks, writerVars, saw412>>

\* ------------------------------------------------------------- environment
\* the context of the transfer is cancelled
Cancel ==
    /\ ~ctxCancelled
    /\ xferPc \notin {"start", "done"}
    /\ ctxCancelled' = TRUE
    /\ UNCHANGED <<cfgVars, cmdVars, status, reportedDone, xferVars, hdVars, chunks, writerVars, fsVars,
                   saw412>>

\* ------------------------------------------------------------- specification
Offsets == 0..(MaxFileSize - 1)

\* a step of the program: the orchestrator, a chunk task or the write worker
ProgramNext ==
    \/ ValidateLocation
    \/ NewHTTPTraverser
    \/ Traverse
    \/ Start
    \/ Prologue
    \/ ScheduleChunk
    \/ \E c \in Offsets : ChunkStart(c)
    \/ \E c \in Offsets : ChunkResponse(c)
    \/ \E c \in Offsets : ChunkEnqueue(c)
    \/ \E c \in Offsets : ChunkEnqueueError(c)
    \/ WorkerReceive
    \/ WorkerExit
    \/ EpilogueFlush
    \/ EpilogueFinish

Next ==
    \/ ProgramNext
    \/ Cancel

Spec == Init /\ [][Next]_vars

\* the same program on the transfers of HashInit
HashSpec == HashInit /\ [][Next]_vars

\* the same program on the transfers of AuthInit
AuthSpec == AuthInit /\ [][Next]_vars

\* the same program on the transfers of BackoffInit
BackoffSpec == BackoffInit /\ [][Next]_vars

\* the same program on the command lines of LocationInit
LocationSpec == LocationInit /\ [][Next]_vars

\* the same program with the filters and processors of TraverseInit
TraverseSpec == TraverseInit /\ [][Next]_vars

\* a downloader built on a valid URL, before any transfer step
ProbeInit ==
    /\ HttpSource
    /\ NoFilters
    /\ InitState({1}, {MaxCacheLimit}, {TRUE}, {"NoCheck"}, {"none"}, {""}, {MaxRetry})
    /\ downloadChunkSize = 1

\* the answers the HEAD requests of repeated probes get: a failure, or 200 with
\* or without Accept-Ranges: bytes, with a Content-Length (0 when it is absent),
\* an ETag or none, and a Content-MD5 that is absent, not base64, or the
\* encoding of one of two hashes
ProbeResponses ==
    [err : {TRUE}, status : ProbeErrorStatuses, acceptRanges : {FALSE},
     contentLength : {0}, etag : {""}, contentMD5 : {<<>>}]
    \cup [err : {FALSE}, status : {StatusOK}, acceptRanges : BOOLEAN,
          contentLength : 0..MaxFileSize, etag : {"", "v1"},
          contentMD5 : {<<>>, <<"not base64">>, Base64Encode(MD5(<<0>>)),
                        Base64Encode(MD5(<<1>>))}]

\* httpDownloader.detectCapabilities called on the downloader, as often as
\* MaxProbes times: a failed probe stores nothing
DetectCapabilities ==
    /\ Len(probeResponses) < MaxProbes
    /\ \E head \in ProbeResponses :
         /\ probeResponses' = Append(probeResponses, head)
         /\ probeRequests' = Append(probeRequests, [req |-> HeadRequest, answer |-> head.status])
         /\ probeLog' = DownloaderDetectCapabilities(head.status)
         /\ IF head.err
            THEN UNCHANGED <<supportsRange, contentLength, etag, expectedMD5>>
            ELSE /\ supportsRange' = head.acceptRanges
                 /\ contentLength' = DetectedContentLength(head)
                 /\ expectedMD5' = DetectedMD5(head)
                 /\ etag' = head.etag
    /\ UNCHANGED <<cfgVars, cmdVars, jptmVars, xferVars, probeErr, bearerToken, chunks,
                   writerVars, fsVars, saw412>>

\* repeated probes of one downloader
ProbeSpec == ProbeInit /\ [][DetectCapabilities]_vars

\* the transfers of Init whose RAM budget holds the largest chunk
FairInit ==
    /\ Init
    /\ cacheLimit >= Min(downloadChunkSize, fileSize)

\* the steps of the goroutine that enumerates and runs the transfer
OrchestratorNext ==
    \/ ValidateLocation
    \/ NewHTTPTraverser
    \/ Traverse
    \/ Start
    \/ Prologue
    \/ ScheduleChunk
    \/ EpilogueFlush
    \/ EpilogueFinish

\* the steps of the chunk function of the chunk at offset c
ChunkNext(c) ==
    \/ ChunkStart(c)
    \/ ChunkResponse(c)
    \/ ChunkEnqueue(c)
    \/ ChunkEnqueueError(c)

\* every goroutine that can take a step is eventually run: the orchestrator,
\* each scheduled chunk function on the worker pool, and the write worker
Fairness ==
    /\ WF_vars(OrchestratorNext)
    /\ \A c \in Offsets : WF_vars(ChunkNext(c))
    /\ WF_vars(WorkerReceive \/ WorkerExit)

\* the program of FairInit under a fair scheduler
FairSpec == FairInit /\ [][Next]_vars /\ Fairness

\* ------------------------------------------------------------- properties
\* the write calls that succeeded, in the order they were made
SuccessfulWrites == SelectSeq(writeCalls, LAMBDA call : call.ok)

\* C1: the writes to the destination file are ascending by offset with no gaps,
\* whatever the order of the enqueues: the first write carries the bytes of
\* offset 0, each later one starts where the previous one ended
C1_SequentialWrites ==
    \A k \in 1..Len(SuccessfulWrites) :
        SuccessfulWrites[k].off = IF k = 1 THEN 0
                                  ELSE SuccessfulWrites[k-1].off + SuccessfulWrites[k-1].len

\* C2: after a chunk has failed, Flush still returns: once the channel is closed
\* the write worker is never stuck, it can take a chunk or leave its loop
C2_FlushReturns ==
    (channelClosed /\ ~workerDone /\ AnyChunkFailed)
        => (ENABLED WorkerReceive \/ ENABLED WorkerExit)

\* C3: the bytes reserved in the cache limiter never exceed the RAM budget
C3_MemoryBound == reserved <= cacheLimit

\* C3 witness: the budget is used up and the scheduling loop waits for room
C3_Witness ==
    /\ xferPc = "schedule"
    /\ reserved = cacheLimit
    /\ ~CanAdd(AdjustedChunkSize(startIndex))
    /\ reserved > 0

\* C4: a chunk failure never stops the scheduling loop: while chunks remain to
\* be scheduled after a failure, and the next one fits the budget, the program
\* can take a step
C4_AllChunksScheduled ==
    (xferPc = "schedule" /\ AnyChunkFailed /\ AdjustedChunkSize(startIndex) <= cacheLimit)
        => ENABLED ProgramNext

\* C5: a terminal status (Completed, Failed, Cancelled) never changes
C5_TerminalSticky ==
    [][(status \in TerminalStatuses) => (status' = status)]_vars

\* the chunks that hold byte b of the resource
ChunksHolding(b) == {c \in DOMAIN chunks : c <= b /\ b < c + chunks[c].len}

\* C6: the scheduled chunks partition [0, fileSize): every byte below the loop
\* index is in exactly one chunk, no chunk reaches beyond the size, every chunk
\* has downloadChunkSize bytes except a last one of the remainder when nonzero
C6_ChunkPartition ==
    /\ \A b \in 0..(Min(startIndex, fileSize) - 1) : Cardinality(ChunksHolding(b)) = 1
    /\ \A c \in DOMAIN chunks :
         /\ chunks[c].len > 0
         /\ c + chunks[c].len <= fileSize
         /\ chunks[c].len =
              IF c + downloadChunkSize <= fileSize
              THEN downloadChunkSize
              ELSE fileSize - (fileSize \div downloadChunkSize) * downloadChunkSize
    /\ startIndex >= fileSize => Cardinality(DOMAIN chunks) = NumChunks

\* C6 witness: the loop has ended on a last chunk smaller than the others
C6_Witness ==
    /\ xferPc = "wait"
    /\ fileSize % downloadChunkSize # 0
    /\ Cardinality(DOMAIN chunks) >= 2

\* C7: the bytes fed to the hash are the bytes written to the file, in the same
\* order, also when a write fails
C7_HashedIsWritten == md5Hasher = file

\* C8: when the probe saw an entity tag and a chunk request was answered 412,
\* the transfer ends Failed, without its temp file and without a destination
C8_PreconditionFailedIsFatal ==
    (xferPc = "done" /\ etag # "" /\ saw412)
        => (status = "Failed" /\ ~tempExists /\ ~destExists)

\* C9: a 4xx answer other than 429 is not retried: no chunk task goes on to a
\* further attempt with such an answer as its last one
C9_NoRetryOn4xx ==
    \A c \in DOMAIN chunks :
        chunks[c].pc = "doing"
            => chunks[c].lastResp \notin {StatusNotFound, StatusPreconditionFailed}

\* C10: a chunk task issues at most MaxRetry + 1 GET requests; when all of them
\* failed it has failed the active download exactly once and enqueued nothing
C10_RetryBudget ==
    \A c \in DOMAIN chunks :
        /\ chunks[c].requests <= MaxRetry + 1
        /\ chunks[c].retries > MaxRetry
             => /\ chunks[c].pc = "failed"
                /\ chunks[c].failCalls = 1
                /\ ~chunks[c].enqueued

\* C10 witness: a task that used up its attempts
C10_Witness ==
    \E c \in DOMAIN chunks :
        /\ chunks[c].requests = MaxRetry + 1
        /\ chunks[c].retries = MaxRetry + 1
        /\ chunks[c].failMsg = "Downloading response body"

\* C11: a cancelled context aborts the retries at once: a chunk task that waits
\* for an answer when the context is cancelled issues no further request
C11_CancelAbortsRetries ==
    [][\A c \in DOMAIN chunks :
          (ctxCancelled /\ chunks[c].pc = "doing")
              => chunks'[c].requests <= chunks[c].requests]_vars

\* C12: Prologue marks the transfer Failed and reports it done whenever its
\* probe fails or the probed size (0 when the header is absent) differs from
\* the enumerated size
C12_PrologueFailsOnMismatch ==
    [][(xferPc = "prologue" /\ xferPc' # "prologue"
            /\ (probeErr' \/ contentLength' # fileSize))
          => (status' = "Failed" /\ reportedDone' = reportedDone + 1)]_vars

\* Prologue marked the transfer Failed: its probe failed or reported another size
PrologueFailed == probeErr \/ (contentLength > 0 /\ contentLength # fileSize)

\* C13: after Prologue has marked the transfer Failed no chunk is scheduled,
\* so no chunk request is issued
C13_NoChunkAfterFailedPrologue == PrologueFailed => DOMAIN chunks = {}

\* C14: a response body is handed to the writer only if the final status is
\* 206, or 200 for a chunk at offset 0 of a resource without range support
C14_OnlyAcceptedStatusEnqueued ==
    [][\A c \in DOMAIN chunks :
          (~chunks[c].enqueued /\ chunks'[c].enqueued)
              => \/ chunks[c].lastResp = StatusPartialContent
                 \/ chunks[c].lastResp = StatusOK /\ c = 0 /\ ~supportsRange]_vars

\* C15: without range support the task of a chunk at offset > 0 fails the
\* active download once, issues no request and enqueues nothing
C15_NoRangeNoRequest ==
    \A c \in DOMAIN chunks :
        (~supportsRange /\ c > 0 /\ chunks[c].pc # "queued")
            => /\ chunks[c].pc = "failed"
               /\ chunks[c].failCalls = 1
               /\ chunks[c].requests = 0
               /\ ~chunks[c].enqueued

\* C15 witness: a task stopped by the range check
C15_Witness ==
    \E c \in DOMAIN chunks :
        c > 0 /\ chunks[c].pc = "failed" /\ chunks[c].failMsg = "Range request validation"

\* C16: when the probe reports no range support, the scheduling loop ends with
\* exactly one chunk, which covers [0, fileSize) and is requested without a
\* Range header
C16_SingleChunkWithoutRange ==
    (xferPc \in {"wait", "flush"} /\ ~probeErr /\ ~supportsRange)
        => /\ DOMAIN chunks = {0}
           /\ chunks[0].len = fileSize
           /\ ~chunks[0].rangeSent

\* C17: the destination exists at its final path only if the transfer reached
\* Completed; a file that was downloaded is renamed only after the worker has
\* drained without a write error, no chunk has failed and the hash check passed
C17_DestinationOnlyIfCompleted ==
    destExists
        => /\ status = "Completed"
           /\ fileSize > 0
                => /\ workerDone
                   /\ ~AnyChunkFailed
                   /\ ~failureError
                   /\ Check(md5Option, ExpectedMD5, MD5(md5Hasher)) = "nil"

\* C18: whenever the transfer has been reported done with status Failed or
\* Cancelled, whatever the cause, the temp file no longer exists
C18_TempRemovedOnFailure ==
    (reportedDone >= 1 /\ status \in {"Failed", "Cancelled"}) => ~tempExists

\* C19: under FailIfDifferentOrMissing a transfer whose source declares no
\* hash is Failed as soon as it has started: no chunk is ever scheduled, no
\* destination file appears and it is never Completed, whatever the source's
\* size, zero included
C19_MissingHashFailsEarly ==
    (md5Option = "FailIfDifferentOrMissing" /\ Len(ExpectedMD5) = 0 /\ xferPc # "start")
        => /\ status = "Failed"
           /\ xferPc = "done"
           /\ reportedDone = 1
           /\ DOMAIN chunks = {}
           /\ ~tempExists
           /\ ~destExists

\* a zero-byte source without a hash, failed under the strict option
C19_Witness ==
    /\ md5Option = "FailIfDifferentOrMissing"
    /\ Len(ExpectedMD5) = 0
    /\ fileSize = 0
    /\ status = "Failed"
    /\ xferPc = "done"

\* C20: when the epilogue decides a transfer whose source declared a hash, with
\* no chunk failed and no write error, the transfer ends Failed if the hash of
\* the written bytes differs and the option is FailIfDifferent or
\* FailIfDifferentOrMissing, and ends Completed in every other case: the hashes
\* differ under NoCheck or LogOnly, or they are equal under any option
C20_HashValidationOutcome ==
    [][(/\ xferPc = "flush"
        /\ xferPc' = "done"
        /\ Len(ExpectedMD5) > 0
        /\ ~AnyChunkFailed
        /\ ~failureError)
          => status' = IF /\ ExpectedMD5 # MD5(md5Hasher)
                          /\ md5Option \in {"FailIfDifferent", "FailIfDifferentOrMissing"}
                       THEN "Failed"
                       ELSE "Completed"]_vars

\* C21: once the context of a transfer that has not completed is cancelled, no
\* chunk task goes into another attempt of its request, and the transfer ends
\* with the status Cancelled
C21_CancelledIsTerminalNoRetry ==
    [][ctxCancelled
          => /\ \A c \in DOMAIN chunks :
                  (chunks[c].pc = "doing" /\ chunks'[c].pc = "doing")
                      => chunks'[c].retries = chunks[c].retries
             /\ (xferPc # "done" /\ xferPc' = "done") => status' = "Cancelled"]_vars

\* C22: a cancelled transfer is never blocked in the admission gate: while
\* chunks remain to be scheduled and the context is cancelled, the scheduling
\* loop can take its next step, whether or not the RAM budget has room
C22_CancelUnblocksAdmission ==
    (xferPc = "schedule" /\ ctxCancelled) => ENABLED ScheduleChunk

\* a chunk larger than the whole RAM budget was scheduled after the context
\* was cancelled: the gate had no room and let it through
C22_Witness ==
    /\ ctxCancelled
    /\ \E c \in DOMAIN chunks : chunks[c].len > cacheLimit

\* C23: the write worker gives back the reservation of every chunk it takes
\* out of the reorder map, also of a chunk whose write failed and of the chunks
\* drained after it, and a write error is recorded for Flush
C23_DrainReleasesAfterWriteError ==
    [][(nextOffsetToSave' # nextOffsetToSave)
          => /\ reserved - reserved' = nextOffsetToSave' - nextOffsetToSave
             /\ (\E k \in 1..Len(writeCalls') : ~writeCalls'[k].ok) => failureError']_vars

C25_IfMatchOnEveryAttempt ==
    etag # ""
        => \A c \in DOMAIN chunks :
               chunks[c].pc = "doing" => chunks[c].req.ifMatch = <<etag>>

\* a retry is in flight for a resource whose probe gave an entity tag
C25_Witness ==
    /\ etag # ""
    /\ \E c \in DOMAIN chunks :
           /\ chunks[c].pc = "doing"
           /\ chunks[c].retries >= 1
           /\ chunks[c].req.ifMatch = <<etag>>

\* C26: when the probed resource supports ranges, the request of every attempt
\* of a chunk task, the first and each retry, carries exactly one range, from
\* the chunk's offset to its offset + length - 1 inclusive, inside the resource
C26_OneRangePerRequest ==
    supportsRange
        => \A c \in DOMAIN chunks :
               chunks[c].pc = "doing"
                   => /\ Len(chunks[c].req.range) = 1
                      /\ chunks[c].req.range[1][1] = c
                      /\ chunks[c].req.range[1][2] = c + chunks[c].len - 1
                      /\ chunks[c].req.range[1][2] < fileSize

\* a retry is in flight for a chunk that is not the first, with its own range
C26_Witness ==
    /\ supportsRange
    /\ \E c \in DOMAIN chunks :
           /\ c > 0
           /\ chunks[c].pc = "doing"
           /\ chunks[c].retries >= 1
           /\ chunks[c].req.range = << <<c, c + chunks[c].len - 1>> >>

\* C27: when the credential of the transfer holds a bearer token, the HEAD
\* probe of the prologue and the request of every attempt of every chunk task
\* carry Authorization: Bearer <token>
C27_BearerTokenOnEveryRequest ==
    credToken # ""
        => /\ \A k \in 1..Len(probeRequests) :
                  probeRequests[k].req.auth = <<"Bearer ", credToken>>
           /\ \A c \in DOMAIN chunks :
                  chunks[c].pc = "doing" => chunks[c].req.auth = <<"Bearer ", credToken>>

C29_ProbeFailure ==
    /\ (traverser.pc # "new" /\ traverser.answer \in ProbeErrorStatuses)
          => /\ traverser.pc = "failed"
             /\ traverser.answer # TransportError => traverser.err.code = traverser.answer
             /\ ~tempExists /\ ~destExists
    /\ \A k \in 1..Len(probeRequests) :
          probeRequests[k].answer \in ProbeErrorStatuses
              => /\ probeErr
                 /\ reportedDone >= 1
                 /\ probeRequests[k].answer # TransportError
                        => probeLog.code = probeRequests[k].answer
                 /\ ~tempExists /\ ~destExists

C31_TotalityAsStated ==
    (fromLocation.pc = "done" /\ userSpecifiedLocation = <<>>)
        => IF srcArg.scheme \in {"http", "https"}
           THEN fromLocation.location # "Unknown" /\ fromLocation.err = NoError
           ELSE fromLocation.location = "Unknown" /\ fromLocation.err # NoError

\* C31: with no --location, a source argument of scheme http or https gets a
\* Location other than Unknown and no error; an argument without a scheme is a
\* local path and gets Local and no error; an argument of any other scheme gets
\* Unknown and an error
C31_Totality ==
    (fromLocation.pc = "done" /\ userSpecifiedLocation = <<>>)
        => IF srcArg.scheme \in {"http", "https"}
           THEN fromLocation.location # "Unknown" /\ fromLocation.err = NoError
           ELSE IF srcArg.scheme = ""
           THEN fromLocation.location = "Local" /\ fromLocation.err = NoError
           ELSE fromLocation.location = "Unknown" /\ fromLocation.err # NoError

\* an argument of a scheme that is neither http nor https was validated without
\* --location and rejected
C31_Witness ==
    /\ fromLocation.pc = "done"
    /\ userSpecifiedLocation = <<>>
    /\ srcArg.scheme \notin {"", "http", "https"}
    /\ fromLocation.location = "Unknown"
    /\ fromLocation.err # NoError

\* the Location of the cloud endpoint a host belongs to, "" when it is none
CloudOfHost(host) ==
    LET n == Len(host)
        azure == n >= 5 /\ SubSeq(host, n - 2, n) = <<"core", "windows", "net">>
    IN  CASE azure /\ host[n - 3] = "blob" -> "Blob"
          [] azure /\ host[n - 3] = "file" -> "File"
          [] azure /\ host[n - 3] = "dfs"  -> "BlobFS"
          [] host = <<"s3", "amazonaws", "com">> -> "S3"
          [] host = <<"storage", "cloud", "google", "com">> -> "GCP"
          [] OTHER -> ""

\* C32 as stated: the result is Http if and only if the scheme is http or
\* https, the host is of no cloud endpoint and no --location forces another
\* value; without --location a host of a cloud endpoint gets that cloud's
\* Location
C32_HttpIffAsStated ==
    fromLocation.pc = "done"
        => /\ (fromLocation.location = "Http")
                 <=> /\ srcArg.scheme \in {"http", "https"}
                     /\ CloudOfHost(srcArg.host) = ""
                     /\ \/ userSpecifiedLocation = <<>>
                        \/ LocationParse(userSpecifiedLocation) = {"Http"}
           /\ (userSpecifiedLocation = <<>> /\ srcArg.scheme \in {"http", "https"}
                   /\ CloudOfHost(srcArg.host) # "")
                 => fromLocation.location = CloudOfHost(srcArg.host)

\* C32: the result is Http if and only if --location names Http, or no
\* --location is given, the scheme is http or https and the host is of no
\* cloud endpoint; without --location a host of a cloud endpoint gets that
\* cloud's Location
C32_HttpIff ==
    fromLocation.pc = "done"
        => /\ (fromLocation.location = "Http")
                 <=> \/ LocationParse(userSpecifiedLocation) = {"Http"}
                     \/ /\ userSpecifiedLocation = <<>>
                        /\ srcArg.scheme \in {"http", "https"}
                        /\ CloudOfHost(srcArg.host) = ""
           /\ (userSpecifiedLocation = <<>> /\ srcArg.scheme \in {"http", "https"}
                   /\ CloudOfHost(srcArg.host) # "")
                 => fromLocation.location = CloudOfHost(srcArg.host)

\* the Blob endpoint was given with --location HTTP and is taken as Http
C32_Witness ==
    /\ fromLocation.pc = "done"
    /\ CloudOfHost(srcArg.host) = "Blob"
    /\ userSpecifiedLocation = <<"H", "T", "T", "P">>
    /\ fromLocation.location = "Http"

\* C33: once Traverse has returned, the processor was called exactly once if
\* every filter that supports this OS passes the object, and not at all if one
\* of them rejects it (Traverse then returns nil); the enumeration counter was
\* incremented exactly once if the processor was called and returned no error,
\* and not at all otherwise
C33_TraverseOnce ==
    traversal.pc = "done"
        => LET rejected == \E i \in 1..Len(filters) :
                               filters[i].supportsOS /\ ~filters[i].doesPass
           IN  /\ ~rejected => traversal.processed = 1
               /\ rejected => traversal.processed = 0 /\ traversal.err = NoError
               /\ traversal.enumerated =
                      IF traversal.processed = 1 /\ processorErr = NoError THEN 1 ELSE 0
               /\ (traversal.processed = 1 /\ processorErr # NoError)
                      => traversal.err # NoError

\* a filter that does not support this OS and would not pass the object was
\* skipped, and the processor was called and counted
C33_Witness ==
    /\ traversal.pc = "done"
    /\ \E i \in 1..Len(filters) : ~filters[i].supportsOS /\ ~filters[i].doesPass
    /\ traversal.processed = 1
    /\ traversal.enumerated = 1

\* the chunks admitted and not yet written: their task is still running, or
\* their data waits in the channel or in the reorder map of the writer
InFlight ==
    {c \in DOMAIN chunks :
        \/ chunks[c].pc \in {"queued", "doing", "body"}
        \/ \E k \in 1..Len(newUnorderedChunks) : newUnorderedChunks[k].off = c
        \/ c \in DOMAIN unsavedChunksByFileOffset}

\* the sum of the lengths of a set of chunks
RECURSIVE SumOfLengths(_)
SumOfLengths(cs) ==
    IF cs = {} THEN 0
    ELSE LET c == CHOOSE x \in cs : TRUE IN chunks[c].len + SumOfLengths(cs \ {c})

\* C34: the bytes reserved in the cache limiter are at every moment the sum of
\* the lengths of the chunks admitted and not yet written, also after a chunk
\* task failed before enqueueing, after EnqueueChunk returned an error and after
\* a write error
C34_ReservedIsInFlight == reserved = SumOfLengths(InFlight)

\* C35: between two iterations of the write worker every chunk in the reorder
\* map has an offset strictly greater than nextOffsetToSave
C35_ReorderMapAhead ==
    \A o \in DOMAIN unsavedChunksByFileOffset : o > nextOffsetToSave

\* a chunk that arrived before its predecessor waits in the reorder map
C35_Witness ==
    /\ DOMAIN unsavedChunksByFileOffset # {}
    /\ \A o \in DOMAIN unsavedChunksByFileOffset : o > nextOffsetToSave
    /\ \E o \in DOMAIN unsavedChunksByFileOffset :
         chunks[o].enqueued /\ chunks[nextOffsetToSave].pc # "done"

\* C36: when the transfer has reached a terminal status and is over, every
\* reserved byte has been released, also those of the chunks whose task failed
\* before anything was enqueued
C36_NothingReservedAtEnd ==
    (xferPc = "done" /\ status \in TerminalStatuses) => reserved = 0

\* something a deadlock-free run is not asked to survive has happened: the
\* enumeration or the probe failed, the probed length differs from the size, a
\* chunk function failed its download, a write failed, or the context was
\* cancelled
Faulted ==
    \/ traverser.pc = "failed"
    \/ probeErr
    \/ contentLength > 0 /\ contentLength # fileSize
    \/ AnyChunkFailed
    \/ failureError
    \/ ctxCancelled

C38_AccountedOnce ==
    /\ \A c \in DOMAIN chunks :
         /\ chunks[c].failCalls <= 1
         /\ chunks[c].pc = "failed" <=> chunks[c].failCalls = 1
         /\ chunks[c].pc = "done" <=> chunks[c].enqueued
    /\ (xferPc \in {"flush", "done"})
         => (AllChunksReported /\ Cardinality(DOMAIN chunks) = NumChunks)
    /\ (xferPc \in {"schedule", "wait", "flush"}) => ENABLED ProgramNext

\* C39: the transfer is reported done at most once on every path, and once
\* Prologue has marked it Failed and reported it done, no later step reports it
\* done again or marks it Completed
C39_ReportedDoneOnce ==
    /\ reportedDone <= 1
    /\ PrologueFailed => status # "Completed"

\* the answers of the probes that succeeded, in the order they were got
SuccessfulProbes == SelectSeq(probeResponses, LAMBDA r : ~r.err)

\* C40: after any sequence of probes of one downloader, of which one at least
\* succeeded, the stored range support, content length, entity tag and hash are
\* those of the most recent successful probe: a content length that is absent
\* from it leaves 0, a Content-MD5 that is absent from it or does not decode
\* leaves no hash, never a value of an earlier probe
C40_LatestProbeOnly ==
    SuccessfulProbes # <<>>
        => LET last == SuccessfulProbes[Len(SuccessfulProbes)] IN
           /\ supportsRange = last.acceptRanges
           /\ etag = last.etag
           /\ contentLength = last.contentLength
           /\ expectedMD5 = IF last.contentMD5 \in {Base64Encode(MD5(<<0>>)),
                                                    Base64Encode(MD5(<<1>>))}
                            THEN last.contentMD5[2]
                            ELSE <<>>

====
